---- MODULE Spec2Model ----
(***************************************************************************)
(* Model of perceval/backends/opnfv/functest.py: the Functest backend      *)
(* (Functest.fetch, Functest.parse_json) on top of the REST client         *)
(* (FunctestClient.results, FunctestClient._fetch).                        *)
(*                                                                         *)
(* Both fetch and results are Python generators.  A generator runs only    *)
(* while its consumer is inside next(); the single interpreter thread is   *)
(* modelled by `running`, the walk whose next() call is in progress (0     *)
(* when control is with the consumer).  The HTTP server is the             *)
(* environment: it answers each request with a status and a body.          *)
(***************************************************************************)
EXTENDS Integers, Sequences, FiniteSets, TLC

(* ------------------------------ bounds -------------------------------- *)

\* largest current_page / total_pages value a server reports
MaxPage == 3

\* largest number of records in one page's `results` list
MaxRecs == 2

\* requests of one walk that a server of kind "any" is observed for (the
\* other kinds end the walk themselves, or are run unrecorded)
MaxReq == 2

\* records a server hands out to one walk
MaxData == MaxPage * MaxRecs

\* the consumers (each holds at most one live generator)
Walks == {1, 2}

(* ------------------------------ values -------------------------------- *)

\* A datetime is [wall, off]: wall-clock seconds and the UTC offset of its
\* timezone.

\* The (from_date, to_date) pairs callers pass; <<>> is an omitted to_date.
Windows ==
  {[from |-> [wall |-> 1, off |-> 0], to |-> <<>>],
   [from |-> [wall |-> 1, off |-> 0], to |-> <<[wall |-> 3, off |-> 1]>>],
   [from |-> [wall |-> 3, off |-> 1], to |-> <<[wall |-> 3, off |-> 0]>>]}

\* What datetime_utcnow() can read at the start of a fetch.
NowTimes == {4}

\* datetime_to_utc: same instant, expressed at offset 0.
datetime_to_utc(d) == [wall |-> d.wall - d.off, off |-> 0]

\* datetime_utcnow
datetime_utcnow(n) == [wall |-> n, off |-> 0]

\* strftime("%Y-%m-%d %H:%M:%S"): the wall-clock fields, the offset is dropped.
strftime(d) == d.wall

PFROM_DATE == "from"
PTO_DATE == "to"
PPAGE == "page"

\* d[k] = v on a Python dict
SetItem(d, k, v) == (k :> v) @@ d

Statuses == {200, 404, 500}

\* The HTTP statuses that report an error (4xx client, 5xx server).
ErrorStatuses == {404, 500}

\* Mutant of RaisesForStatus: only server errors raise.
RaisesForServerError(s) == s >= 500 /\ s < 600

\* Response.raise_for_status raises for 4xx and 5xx
RaisesForStatus(s) == s >= 400 /\ s < 600

\* A response body.  valid: it is well-formed JSON; hasResults/hasPagination:
\* the top-level keys it carries.  Absent parts hold a fixed filler.
Body(valid, hasR, res, hasP, c, t) ==
  [valid |-> valid, hasResults |-> hasR, results |-> res,
   hasPagination |-> hasP, current_page |-> c, total_pages |-> t]

Malformed == Body(FALSE, FALSE, <<>>, FALSE, 0, 0)

\* The records of the k-th page of a walk, n of them, each one distinct.
Records(k, n) == [i \in 1..n |-> <<k, i>>]

Bodies(k, maxn) ==
  {Malformed}
  \cup {Body(TRUE, FALSE, <<>>, TRUE, c, t) : c \in 1..MaxPage, t \in 1..MaxPage}
  \cup {Body(TRUE, FALSE, <<>>, FALSE, 0, 0)}
  \cup {Body(TRUE, TRUE, Records(k, n), FALSE, 0, 0) : n \in 0..maxn}
  \cup {Body(TRUE, TRUE, Records(k, n), TRUE, ct[1], ct[2]) :
          n \in 0..maxn, ct \in (1..MaxPage) \X (1..MaxPage)}

NoResponse == [status |-> 0, text |-> Malformed]

\* The page a request asks for: the service default is 1.
RequestedPage(p) == IF PPAGE \in DOMAIN p THEN p[PPAGE] ELSE 1

Min(a, b) == IF a < b THEN a ELSE b

\* The data set of the server of kind "fixed": M full pages but the last,
\* which holds one record.
PageSize(k, M) == IF k < M THEN MaxRecs ELSE 1

\* The responses a server may give to request p, the k-th of its walk, when it
\* may still hand out at most `room` records.  By kind of server (e.kind):
\*   any    : every response
\*   echo   : status 200, current_page = the requested page, total_pages =
\*            e.total, any results
\*   fixed  : a function of the request: page RequestedPage(p) of e.total
\*            pages of a fixed data set, but status 500 for page e.fail
\*   mono   : current_page never below the one reported before
Responses(e, p, k, room) ==
  LET bs == Bodies(k, Min(MaxRecs, room))
      ok == {[status |-> 200, text |-> b] : b \in bs}
      errs == {[status |-> s, text |-> Malformed] : s \in ErrorStatuses}
      last == RequestedPage(p) - 1
      rp == RequestedPage(p)
  IN CASE e.kind = "any" -> ok \cup errs
       [] e.kind = "echo" ->
            {r \in ok : /\ r.text.valid /\ r.text.hasResults
                        /\ r.text.hasPagination
                        /\ r.text.current_page = rp
                        /\ r.text.total_pages = e.total}
       [] e.kind = "fixed" ->
            IF rp = e.fail THEN {[status |-> 500, text |-> Malformed]}
            ELSE {[status |-> 200,
                   text |-> Body(TRUE, TRUE, Records(rp, PageSize(rp, e.total)),
                                 TRUE, rp, e.total)]}
       [] e.kind = "mono" ->
            {r \in ok : r.text.hasPagination => r.text.current_page >= last}
            \cup errs

(* ------------------------------- state -------------------------------- *)

VARIABLES
  env,       \* the scenario: server kind, its total_pages, consumers, recorder
  running,   \* the walk whose next() is executing, 0 if none
  net,       \* HTTP requests sent and not yet answered
  pc,        \* per walk: where its generator stands
  api,       \* per walk: "fetch" (Functest.fetch) or "results" (the client)
  args,      \* per walk: the caller's from_date and to_date
  params,    \* per frame: the `params` dict of FunctestClient.results
  response,  \* per walk: the last HTTP response
  idx,       \* per walk: position of fetch's inner loop in parsed_data
  ndata,     \* per walk: fetch's ndata
  logged,    \* per walk: the count of the completion log line, if emitted
  error,     \* per walk: the exception that ended it, "" if none
  reqs,      \* recorder: per walk, the params of every request sent
  bodies,    \* recorder: per walk, the results list (if any) of every body
             \* FunctestClient.results yielded
  out        \* recorder: per walk, every record Functest.fetch yielded

vars == <<env, running, net, pc, api, args, params, response, idx, ndata,
          logged, error, reqs, bodies, out>>

\* Mutant of FrameOf: `params` lives on the client object, one for all walks.
FrameShared(w) == 1

\* The frame holding the locals of walk w's invocation of results():
\* `params` is created afresh by each call (line 181).
FrameOf(w) == w

\* The recorder appends only when it is on.
Rec(s, x) == IF env.observe THEN Append(s, x) ELSE s

\* What the recorder keeps of a yielded body: its results list, if it has one.
Digest(raw) == IF raw.valid /\ raw.hasResults THEN raw.results ELSE <<>>

\* Mutant of parse_json_error: a missing `results` reads as an empty list.
parse_json_error_lenient(raw) == IF ~raw.valid THEN "JSONDecodeError" ELSE ""

\* parse_json: json.loads(raw_json)['results'], and the exception it raises
parse_json_error(raw) ==
  IF ~raw.valid THEN "JSONDecodeError"
  ELSE IF ~raw.hasResults THEN "KeyError:results"
  ELSE ""

\* Mutant of parse_json: the first record of every page is lost.
parse_json_tail(raw) == IF raw.results = <<>> THEN <<>> ELSE Tail(raw.results)

parse_json(raw) == raw.results

\* The params results() starts with: `from` always, `to` if to_date is given.
InitialParams(from_date, to_date) ==
  LET p == [from |-> strftime(from_date)]
  IN IF to_date # <<>> THEN SetItem(p, PTO_DATE, strftime(to_date[1])) ELSE p

\* Mutant of FetchWindow: an omitted to_date stays omitted.
FetchWindowOpen(a, now) ==
  [from |-> datetime_to_utc(a.from),
   to |-> IF a.to # <<>> THEN <<datetime_to_utc(a.to[1])>> ELSE <<>>]

\* What fetch passes to results(): both dates in UTC, to_date defaulting to now.
FetchWindow(a, now) ==
  [from |-> datetime_to_utc(a.from),
   to |-> IF a.to # <<>> THEN <<datetime_to_utc(a.to[1])>>
          ELSE <<datetime_utcnow(now)>>]

\* A scenario: the kind of server with its total_pages and failing page, the
\* consumers that call, whether the recorder is on, and whether a consumer
\* may call again while it holds a generator.
Scenario(kind, M, F, ws, obs, again) ==
  [kind |-> kind, total |-> M, fail |-> F, walks |-> ws, observe |-> obs,
   reinvoke |-> again]

InitWith(e) ==
  /\ env = e
  /\ running = 0
  /\ net = {}
  /\ pc = [w \in Walks |-> "idle"]
  /\ api = [w \in Walks |-> "fetch"]
  /\ args = [w \in Walks |-> [from |-> [wall |-> 1, off |-> 0], to |-> <<>>]]
  /\ params = [f \in Walks |-> <<>>]
  /\ response = [w \in Walks |-> NoResponse]
  /\ idx = [w \in Walks |-> 0]
  /\ ndata = [w \in Walks |-> 0]
  /\ logged = [w \in Walks |-> <<>>]
  /\ error = [w \in Walks |-> ""]
  /\ reqs = [w \in Walks |-> <<>>]
  /\ bodies = [w \in Walks |-> <<>>]
  /\ out = [w \in Walks |-> <<>>]

\* One consumer, one call, an arbitrary server.
Init == InitWith(Scenario("any", 1, 0, {1}, TRUE, FALSE))

\* One consumer, one call, a server that echoes the requested page.
InitEcho == \E M \in 1..MaxPage : InitWith(Scenario("echo", M, 0, {1}, TRUE, FALSE))

\* Two consumers calling again and again, a server that is a function of the
\* request.
InitTwo ==
  \E M \in 1..MaxPage, F \in 0..MaxPage :
    F <= M /\ InitWith(Scenario("fixed", M, F, Walks, TRUE, TRUE))

\* One consumer, one call, unrecorded, a server whose current_page never
\* decreases.
InitMono == InitWith(Scenario("mono", 1, 0, {1}, FALSE, FALSE))


(* ------------------------------ actions ------------------------------- *)

\* An exception leaves the generator: it is finished, control returns.
Raise(w, e) ==
  /\ pc' = [pc EXCEPT ![w] = "failed"]
  /\ error' = [error EXCEPT ![w] = e]
  /\ running' = 0

\* The consumer calls fetch(from_date, to_date) or client.results(...): a new
\* generator object; nothing of its body runs yet.  The generator the consumer
\* held before is dropped, its frame with it.
Call(w, a, win) ==
  /\ running = 0
  /\ w \in env.walks
  /\ pc[w] = "idle" \/ env.reinvoke
  /\ pc' = [pc EXCEPT ![w] = "created"]
  /\ api' = [api EXCEPT ![w] = a]
  /\ args' = [args EXCEPT ![w] = win]
  /\ response' = [response EXCEPT ![w] = NoResponse]
  /\ idx' = [idx EXCEPT ![w] = 0]
  /\ ndata' = [ndata EXCEPT ![w] = 0]
  /\ logged' = [logged EXCEPT ![w] = <<>>]
  /\ error' = [error EXCEPT ![w] = ""]
  /\ reqs' = [reqs EXCEPT ![w] = <<>>]
  /\ bodies' = [bodies EXCEPT ![w] = <<>>]
  /\ out' = [out EXCEPT ![w] = <<>>]
  /\ params' = [params EXCEPT ![FrameOf(w)] = <<>>]
  /\ UNCHANGED <<env, running, net>>

\* First next(): fetch normalises the window and enters results(), which
\* builds params and reaches its first _fetch.
Start(w, now) ==
  /\ running = 0
  /\ pc[w] = "created"
  /\ LET win == IF api[w] = "fetch" THEN FetchWindow(args[w], now) ELSE args[w]
     IN params' = [params EXCEPT ![FrameOf(w)] = InitialParams(win.from, win.to)]
  /\ pc' = [pc EXCEPT ![w] = "request"]
  /\ running' = w
  /\ UNCHANGED <<env, net, api, args, response, idx, ndata, logged, error,
                 reqs, bodies, out>>

\* _fetch: requests.get(url, params=params) is sent.
Send(w) ==
  /\ running = w
  /\ pc[w] = "request"
  /\ env.kind = "any" => Len(reqs[w]) < MaxReq
  /\ net' = net \cup {[walk |-> w, params |-> params[FrameOf(w)]]}
  /\ reqs' = [reqs EXCEPT ![w] = Rec(@, params[FrameOf(w)])]
  /\ pc' = [pc EXCEPT ![w] = "waiting"]
  /\ UNCHANGED <<env, running, api, args, params, response, idx, ndata,
                 logged, error, bodies, out>>

\* The server answers an outstanding request.
Respond(q) ==
  /\ q \in net
  /\ \E r \in Responses(env, q.params, Len(reqs[q.walk]),
                        MaxData - ndata[q.walk]) :
       response' = [response EXCEPT ![q.walk] = r]
  /\ net' = net \ {q}
  /\ pc' = [pc EXCEPT ![q.walk] = "received"]
  /\ UNCHANGED <<env, running, api, args, params, idx, ndata, logged, error,
                 reqs, bodies, out>>

\* Mutant of Receive: results() reads the pagination before it yields the body.
ReceiveProbeFirst(w) ==
  /\ running = w
  /\ pc[w] = "received"
  /\ IF RaisesForStatus(response[w].status)
       THEN /\ Raise(w, "HTTPError")
            /\ UNCHANGED bodies
       ELSE IF response[w].text.valid /\ ~response[w].text.hasPagination
       THEN /\ Raise(w, "KeyError:pagination")
            /\ UNCHANGED bodies
       ELSE /\ bodies' = [bodies EXCEPT ![w] = Rec(@, Digest(response[w].text))]
            /\ pc' = [pc EXCEPT ![w] = IF api[w] = "fetch" THEN "parse"
                                       ELSE "yielded"]
            /\ running' = IF api[w] = "fetch" THEN w ELSE 0
            /\ UNCHANGED error
  /\ UNCHANGED <<env, net, api, args, params, response, idx, ndata, logged,
                 reqs, out>>

\* _fetch returns r.text or raises; results() yields the body.  A consumer of
\* results() gets it; fetch goes on to parse it.
Receive(w) ==
  /\ running = w
  /\ pc[w] = "received"
  /\ IF RaisesForStatus(response[w].status)
       THEN /\ Raise(w, "HTTPError")
            /\ UNCHANGED bodies
       ELSE /\ bodies' = [bodies EXCEPT ![w] = Rec(@, Digest(response[w].text))]
            /\ pc' = [pc EXCEPT ![w] = IF api[w] = "fetch" THEN "parse"
                                       ELSE "yielded"]
            /\ running' = IF api[w] = "fetch" THEN w ELSE 0
            /\ UNCHANGED error
  /\ UNCHANGED <<env, net, api, args, params, response, idx, ndata, logged,
                 reqs, out>>

\* Mutant of Parse: fetch asks for the next page before it yields the records
\* of this one.
ParseEager(w) ==
  /\ running = w
  /\ pc[w] = "parse"
  /\ IF parse_json_error(response[w].text) # ""
       THEN /\ Raise(w, parse_json_error(response[w].text))
            /\ UNCHANGED idx
       ELSE /\ idx' = [idx EXCEPT ![w] = 1]
            /\ pc' = [pc EXCEPT ![w] = "paginate"]
            /\ UNCHANGED <<running, error>>
  /\ UNCHANGED <<env, net, api, args, params, response, ndata, logged, reqs,
                 bodies, out>>

\* fetch: parsed_data = self.parse_json(raw_page), then the inner loop starts.
Parse(w) ==
  /\ running = w
  /\ pc[w] = "parse"
  /\ IF parse_json_error(response[w].text) # ""
       THEN /\ Raise(w, parse_json_error(response[w].text))
            /\ UNCHANGED idx
       ELSE /\ idx' = [idx EXCEPT ![w] = 1]
            /\ pc' = [pc EXCEPT ![w] =
                        IF Len(parse_json(response[w].text)) >= 1 THEN "iter"
                        ELSE "paginate"]
            /\ UNCHANGED <<running, error>>
  /\ UNCHANGED <<env, net, api, args, params, response, ndata, logged, reqs,
                 bodies, out>>

\* fetch: yield test_data.
Yield(w) ==
  /\ running = w
  /\ pc[w] = "iter"
  /\ out' = [out EXCEPT ![w] = Rec(@, parse_json(response[w].text)[idx[w]])]
  /\ pc' = [pc EXCEPT ![w] = "yielded"]
  /\ running' = 0
  /\ UNCHANGED <<env, net, api, args, params, response, idx, ndata, logged,
                 error, reqs, bodies>>

\* A later next().  fetch resumes after its yield: ndata += 1, next record or
\* next page.  results() resumes after its yield, at the pagination probe.
Resume(w) ==
  /\ running = 0
  /\ pc[w] = "yielded"
  /\ running' = w
  /\ IF api[w] = "fetch"
       THEN /\ ndata' = [ndata EXCEPT ![w] = @ + 1]
            /\ idx' = [idx EXCEPT ![w] = @ + 1]
            /\ pc' = [pc EXCEPT ![w] =
                        IF idx[w] + 1 <= Len(parse_json(response[w].text))
                          THEN "iter" ELSE "paginate"]
       ELSE /\ pc' = [pc EXCEPT ![w] = "paginate"]
            /\ UNCHANGED <<ndata, idx>>
  /\ UNCHANGED <<env, net, api, args, params, response, logged, error, reqs,
                 bodies, out>>

\* Mutant of LastPage: stops only past the last page.
LastPagePast(page, total_pages) == page > total_pages

\* The loop condition of results(): stop when page >= total_pages.
LastPage(page, total_pages) == page >= total_pages

\* Mutant of NextParams: counts pages from the page last asked for.
NextParamsCounter(p, page) == SetItem(p, PPAGE, RequestedPage(p) + 1)

\* Mutant of NextParams: asks for the reported page again.
NextParamsSame(p, page) == SetItem(p, PPAGE, page)

\* params[self.PPAGE] = page + 1
NextParams(p, page) == SetItem(p, PPAGE, page + 1)

\* results() after its yield: the pagination probe, then break or the next
\* page.  When results() ends, fetch's loop ends and logs its count.
Paginate(w) ==
  /\ running = w
  /\ pc[w] = "paginate"
  /\ LET j == response[w].text IN
     IF ~j.valid THEN
          Raise(w, "JSONDecodeError") /\ UNCHANGED <<params, logged>>
     ELSE IF ~j.hasPagination THEN
          Raise(w, "KeyError:pagination") /\ UNCHANGED <<params, logged>>
     ELSE IF LastPage(j.current_page, j.total_pages) THEN
          /\ pc' = [pc EXCEPT ![w] = "done"]
          /\ logged' = [logged EXCEPT ![w] =
                          IF api[w] = "fetch" THEN <<ndata[w]>> ELSE <<>>]
          /\ running' = 0
          /\ UNCHANGED <<params, error>>
     ELSE /\ params' = [params EXCEPT ![FrameOf(w)] =
                          NextParams(@, j.current_page)]
          /\ pc' = [pc EXCEPT ![w] = "request"]
          /\ UNCHANGED <<running, error, logged>>
  /\ UNCHANGED <<env, net, api, args, response, idx, ndata, reqs, bodies, out>>

Next ==
  \/ \E w \in Walks, a \in {"fetch", "results"}, win \in Windows :
       Call(w, a, win)
  \/ \E w \in Walks, now \in NowTimes : Start(w, now)
  \/ \E w \in Walks : Send(w)
  \/ \E q \in net : Respond(q)
  \/ \E w \in Walks : Receive(w)
  \/ \E w \in Walks : Parse(w)
  \/ \E w \in Walks : Yield(w)
  \/ \E w \in Walks : Resume(w)
  \/ \E w \in Walks : Paginate(w)

Spec == Init /\ [][Next]_vars

SpecEcho == InitEcho /\ [][Next]_vars

SpecTwo == InitTwo /\ [][Next]_vars

\* A fully consumed walk against a server that answers: the consumer keeps
\* calling next(), the interpreter keeps running, every request is answered.
SpecMono == InitMono /\ [][Next]_vars /\ WF_vars(Next)

(* ------------------------------ claims -------------------------------- *)

RECURSIVE Flatten(_)
\* The concatenation of a sequence of sequences.
Flatten(ss) == IF ss = <<>> THEN <<>> ELSE Head(ss) \o Flatten(Tail(ss))

HasPage(p) == PPAGE \in DOMAIN p

Stopped(w) == pc[w] \in {"done", "failed"}

\* C1: against a server that answers every request with current_page = the
\* requested page and total_pages = M, a walk sends at most M requests, the
\* first without `page` and the k-th (k >= 2) with page = k, it never fails,
\* and once it has ended it has sent exactly M.
C1_ExactlyMRequests ==
  \A w \in Walks :
    /\ Len(reqs[w]) <= env.total
    /\ \A k \in 1..Len(reqs[w]) :
         /\ HasPage(reqs[w][k]) <=> k >= 2
         /\ k >= 2 => reqs[w][k][PPAGE] = k
    /\ pc[w] # "failed"
    /\ pc[w] = "done" => Len(reqs[w]) = env.total /\ net = {}

\* A walk over three pages has ended after its third request.
C1_Witness ==
  /\ env.total = 3 /\ pc[1] = "done" /\ Len(reqs[1]) = 3
  /\ reqs[1][3][PPAGE] = 3

\* C3: the records fetch has yielded are, at every moment, a prefix of the
\* concatenation of the results lists of the pages retrieved so far, and when
\* fetch completes they are the whole of it, counted by the completion log.
C3_RecordsInOrder ==
  \A w \in Walks :
    api[w] = "fetch" =>
      /\ Len(out[w]) <= Len(Flatten(bodies[w]))
      /\ out[w] = SubSeq(Flatten(bodies[w]), 1, Len(out[w]))
      /\ pc[w] = "done" =>
           out[w] = Flatten(bodies[w]) /\ logged[w] = <<Len(out[w])>>

\* A fetch completed over two pages, two records then one.
C3_Witness ==
  /\ api[1] = "fetch" /\ pc[1] = "done"
  /\ bodies[1] = <<Records(1, 2), Records(2, 1)>>
  /\ out[1] = <<<<1, 1>>, <<1, 2>>, <<2, 1>>>>

\* A server answer is in hand and its current_page is above the one the
\* server reported before (the request's page minus one; none before the
\* first request).
Increasing ==
  \A w \in Walks :
    (pc[w] = "received" /\ response[w].text.hasPagination) =>
      response[w].text.current_page > RequestedPage(params[FrameOf(w)]) - 1

\* C2 as stated: against a server whose current_page never decreases and that
\* answers every request, a fully consumed walk eventually stops.
C2_Original == <>Stopped(1)

\* C2 amended: against a server that answers every request, whose
\* current_page increases strictly from each page to the next and whose
\* total_pages stays within a fixed bound, a fully consumed walk eventually
\* stops.
C2_StrictlyIncreasingStops == []Increasing => <>Stopped(1)

\* A walk ended by reaching the last of MaxPage pages, one page at a time.
C2_Witness ==
  /\ pc[1] = "done" /\ HasPage(params[FrameOf(1)])
  /\ params[FrameOf(1)][PPAGE] = MaxPage
  /\ response[1].text.current_page = MaxPage

\* The states that C4 allows.
C4_HttpErrorState ==
  \A w \in Walks :
    /\ error[w] = "HTTPError" =>
         /\ pc[w] = "failed" /\ running # w
         /\ response[w].status \in ErrorStatuses
         /\ \A q \in net : q.walk # w
         /\ Len(bodies[w]) = Len(reqs[w]) - 1
         /\ Len(reqs[w]) = 1 => out[w] = <<>>
         /\ logged[w] = <<>>
    /\ pc[w] \in {"parse", "iter", "yielded", "paginate", "request", "done"} =>
         response[w].status \notin ErrorStatuses

\* C4: a response with an error status ends the walk at once: the generator
\* has failed with the HTTP error, no body was yielded for that request, no
\* request is outstanding, nothing was yielded if it was the first request,
\* and from then on no request is sent; no response with an error status is
\* ever handed on as a page.
C4_HttpErrorFails ==
  /\ []C4_HttpErrorState
  /\ [][\A w \in Walks :
          error[w] = "HTTPError" =>
            /\ reqs'[w] = reqs[w] /\ bodies'[w] = bodies[w]
            /\ out'[w] = out[w] /\ pc'[w] = "failed"]_vars

\* The second request got status 404, after a page of two records.
C4_Witness ==
  /\ error[1] = "HTTPError" /\ response[1].status = 404
  /\ Len(reqs[1]) = 2 /\ Len(out[1]) = 2

\* The states that C5 allows.
C5_MissingPaginationState ==
  \A w \in Walks :
    error[w] = "KeyError:pagination" =>
      /\ pc[w] = "failed" /\ running # w
      /\ response[w].text.valid /\ ~response[w].text.hasPagination
      /\ Len(bodies[w]) = Len(reqs[w])
      /\ bodies[w][Len(bodies[w])] = Digest(response[w].text)
      /\ \A q \in net : q.walk # w

\* C5: when a page without `pagination` ends results(), the body of that page
\* was yielded before (one body per request sent), no request is
\* outstanding, and from then on no request is sent.
C5_MissingPagination ==
  /\ []C5_MissingPaginationState
  /\ [][\A w \in Walks :
          error[w] = "KeyError:pagination" =>
            reqs'[w] = reqs[w] /\ bodies'[w] = bodies[w]]_vars

\* results(), called directly, failed on its second page, which had no
\* `pagination`; the consumer had received both bodies.
C5_Witness ==
  /\ api[1] = "results" /\ error[1] = "KeyError:pagination"
  /\ Len(reqs[1]) = 2 /\ Len(bodies[1]) = 2

\* The `from` value of walk w: its from_date, in UTC when it went through
\* fetch, formatted.
ExpectedFrom(w) ==
  strftime(IF api[w] = "fetch" THEN datetime_to_utc(args[w].from)
           ELSE args[w].from)

\* The `to` values walk w may carry: its to_date, in UTC when it went through
\* fetch, formatted; for a fetch without to_date, the time of its start.
ExpectedTo(w) ==
  IF args[w].to # <<>>
    THEN {strftime(IF api[w] = "fetch" THEN datetime_to_utc(args[w].to[1])
                   ELSE args[w].to[1])}
    ELSE IF api[w] = "fetch"
      THEN {strftime(datetime_utcnow(n)) : n \in NowTimes}
      ELSE {}

\* Request k of walk w has the from and to of the walk's first request.
SameWindow(w, k) ==
  /\ reqs[w][k][PFROM_DATE] = reqs[w][1][PFROM_DATE]
  /\ (PTO_DATE \in DOMAIN reqs[w][k]) <=> (PTO_DATE \in DOMAIN reqs[w][1])
  /\ PTO_DATE \in DOMAIN reqs[w][k] => reqs[w][k][PTO_DATE] = reqs[w][1][PTO_DATE]

\* C6 as stated: every request of a fetch carries `from`, carries `to` only if
\* the caller supplied a to_date, and has the same from and to as the other
\* requests of its walk.
C6_Original ==
  \A w \in Walks : \A k \in 1..Len(reqs[w]) :
    api[w] = "fetch" =>
      /\ PFROM_DATE \in DOMAIN reqs[w][k]
      /\ PTO_DATE \in DOMAIN reqs[w][k] => args[w].to # <<>>
      /\ SameWindow(w, k)

\* C6 amended: every request of a fetch carries `from` and `to`: fetch puts
\* the current UTC time in place of an omitted to_date, so `to` is sent whether
\* or not the caller supplied one; only results() called directly without
\* to_date sends no `to`.  The from and to values are the formatted dates of
\* the call and are the same on every request of a walk; nothing but from, to
\* and page is sent.
C6_WindowOnEveryRequest ==
  \A w \in Walks : \A k \in 1..Len(reqs[w]) :
    /\ DOMAIN reqs[w][k] \subseteq {PFROM_DATE, PTO_DATE, PPAGE}
    /\ PFROM_DATE \in DOMAIN reqs[w][k]
    /\ reqs[w][k][PFROM_DATE] = ExpectedFrom(w)
    /\ PTO_DATE \in DOMAIN reqs[w][k] <=> (api[w] = "fetch" \/ args[w].to # <<>>)
    /\ PTO_DATE \in DOMAIN reqs[w][k] => reqs[w][k][PTO_DATE] \in ExpectedTo(w)
    /\ SameWindow(w, k)

\* The second request of a fetch called without to_date carries `to`.
C6_Witness ==
  /\ api[1] = "fetch" /\ args[1].to = <<>> /\ Len(reqs[1]) = 2
  /\ PTO_DATE \in DOMAIN reqs[1][2]
  /\ reqs[1][2][PTO_DATE] = reqs[1][1][PTO_DATE]
  /\ HasPage(reqs[1][2])

\* The states that C7 allows.
C7_StepState ==
  \A w \in Walks :
    LET j == response[w].text
        p == params[FrameOf(w)] IN
    /\ \A k \in 1..Len(reqs[w]) : HasPage(reqs[w][k]) <=> k >= 2
    /\ (pc[w] = "request" /\ reqs[w] # <<>>) => HasPage(p)
    /\ (pc[w] \in {"request", "waiting"} /\ HasPage(p)) =>
         /\ j.hasPagination /\ j.current_page < j.total_pages
         /\ p[PPAGE] = j.current_page + 1
    /\ pc[w] = "waiting" => reqs[w][Len(reqs[w])] = p
    /\ pc[w] = "done" => j.hasPagination /\ j.current_page >= j.total_pages

\* C7: the first request of a walk has no `page` and every later one has;
\* a request after the first is prepared only when the page before reported
\* current_page < total_pages, and it asks for current_page + 1; the request
\* sent is the one prepared; a walk ends normally only on a page with
\* current_page >= total_pages; and the step out of the pagination probe goes
\* to the next request exactly when current_page < total_pages.
C7_StepRule ==
  /\ []C7_StepState
  /\ [][\A w \in Walks :
          LET j == response[w].text IN
          (pc[w] = "paginate" /\ pc'[w] # "paginate"
             /\ j.valid /\ j.hasPagination) =>
            IF j.current_page < j.total_pages
              THEN /\ pc'[w] = "request"
                   /\ params'[FrameOf(w)][PPAGE] = j.current_page + 1
              ELSE pc'[w] = "done" /\ reqs'[w] = reqs[w]]_vars

\* After a first page reporting (2, 3) the second request asks for page 3.
C7_Witness ==
  /\ pc[1] = "waiting" /\ Len(reqs[1]) = 2
  /\ response[1].text.current_page = 2 /\ response[1].text.total_pages = 3
  /\ reqs[1][2][PPAGE] = 3 /\ ~HasPage(reqs[1][1])

\* The states that C8 allows.
C8_FailureState ==
  \A w \in Walks :
    api[w] = "fetch" =>
      LET k == Len(reqs[w])
          j == response[w].text IN
      /\ pc[w] = "failed" =>
           /\ error[w] \in {"HTTPError", "JSONDecodeError", "KeyError:results",
                             "KeyError:pagination"}
           /\ logged[w] = <<>> /\ running # w
           /\ \A q \in net : q.walk # w
           /\ error[w] = "HTTPError" =>
                Len(bodies[w]) = k - 1 /\ out[w] = Flatten(bodies[w])
           /\ error[w] = "JSONDecodeError" =>
                /\ ~j.valid /\ Len(bodies[w]) = k
                /\ out[w] = Flatten(SubSeq(bodies[w], 1, k - 1))
           /\ error[w] = "KeyError:results" =>
                /\ j.valid /\ ~j.hasResults /\ Len(bodies[w]) = k
                /\ out[w] = Flatten(SubSeq(bodies[w], 1, k - 1))
           /\ error[w] = "KeyError:pagination" =>
                /\ j.valid /\ j.hasResults /\ ~j.hasPagination
                /\ Len(bodies[w]) = k /\ bodies[w][k] = j.results
                /\ out[w] = Flatten(bodies[w])
      /\ pc[w] \in {"iter", "yielded", "paginate", "done"} =>
           j.valid /\ j.hasResults

\* C8: when a fetch has failed on its k-th request, what the consumer has
\* received is the records of pages 1..k-1 if that request got an HTTP error
\* or its body is malformed or has no `results`, and the records of pages 1..k
\* if the page parsed and its pagination is missing; no request is
\* outstanding and the completion line was not logged; fetch goes past
\* parsing only with a page that has `results`; and after the failure the
\* records received stay as they are and no request is sent.
C8_FailureKeepsPrefix ==
  /\ []C8_FailureState
  /\ [][\A w \in Walks :
          (api[w] = "fetch" /\ pc[w] = "failed") =>
            /\ pc'[w] = "failed" /\ out'[w] = out[w]
            /\ reqs'[w] = reqs[w] /\ logged'[w] = logged[w]]_vars

\* A fetch failed on a second page that had one record and no pagination,
\* after a first page of two records: three records were received.
C8_Witness ==
  /\ api[1] = "fetch" /\ error[1] = "KeyError:pagination"
  /\ Len(reqs[1]) = 2 /\ out[1] = <<<<1, 1>>, <<1, 2>>, <<2, 1>>>>

\* A second page without `results` failed a fetch after two records.
C8_WitnessNoResults ==
  /\ api[1] = "fetch" /\ error[1] = "KeyError:results"
  /\ Len(reqs[1]) = 2 /\ Len(out[1]) = 2

\* The states that C9 allows.
C9_SequentialState ==
  /\ Cardinality(net) <= 1
  /\ \A q \in net : running = q.walk /\ pc[q.walk] = "waiting"
  /\ \A w \in Walks :
       /\ pc[w] \in {"request", "waiting", "received", "parse", "iter",
                      "paginate"} <=> running = w
       /\ pc[w] = "waiting" => [walk |-> w, params |-> params[FrameOf(w)]] \in net
       /\ (api[w] = "fetch" /\ pc[w] \in {"request", "waiting"}) =>
            out[w] = Flatten(bodies[w])

\* C9: at most one request is outstanding, and it belongs to the walk whose
\* next() is executing; generator code is executing only inside a next();
\* fetch prepares or sends a request only when every record of the pages
\* retrieved so far has been yielded; and while control is with the consumer
\* no request is sent.
C9_DemandDriven ==
  /\ []C9_SequentialState
  /\ [][\A w \in Walks :
          /\ Len(reqs'[w]) > Len(reqs[w]) => running = w /\ out'[w] = out[w]
          /\ running = 0 => net' = net]_vars

\* The request for the second page is outstanding, after both records of the
\* first page were yielded.
C9_Witness ==
  /\ api[1] = "fetch" /\ pc[1] = "waiting" /\ Cardinality(net) = 1
  /\ Len(reqs[1]) = 2 /\ out[1] = <<<<1, 1>>, <<1, 2>>>>

\* The last request of a walk run alone against the server of kind "fixed".
LastRequest == IF env.fail > 0 THEN env.fail ELSE env.total

\* The records a fetch run alone receives from the server of kind "fixed".
RecordsAlone(w) ==
  IF api[w] = "fetch"
    THEN Flatten([k \in 1..(IF env.fail > 0 THEN env.fail - 1 ELSE env.total)
                    |-> Records(k, PageSize(k, env.total))])
    ELSE <<>>

\* The states that C10 allows.
C10_AloneState ==
  \A w \in Walks :
    pc[w] # "idle" =>
      /\ Len(reqs[w]) <= LastRequest
      /\ \A k \in 1..Len(reqs[w]) :
           /\ reqs[w][k][PFROM_DATE] = ExpectedFrom(w)
           /\ PTO_DATE \in DOMAIN reqs[w][k] <=> ExpectedTo(w) # {}
           /\ PTO_DATE \in DOMAIN reqs[w][k] =>
                reqs[w][k][PTO_DATE] \in ExpectedTo(w)
           /\ HasPage(reqs[w][k]) <=> k >= 2
           /\ k >= 2 => reqs[w][k][PPAGE] = k
      /\ Len(out[w]) <= Len(RecordsAlone(w))
      /\ out[w] = SubSeq(RecordsAlone(w), 1, Len(out[w]))
      /\ pc[w] = "created" => reqs[w] = <<>> /\ out[w] = <<>>
      /\ pc[w] = "done" =>
           /\ env.fail = 0 /\ Len(reqs[w]) = env.total
           /\ out[w] = RecordsAlone(w)
      /\ pc[w] = "failed" =>
           /\ error[w] = "HTTPError" /\ Len(reqs[w]) = env.fail
           /\ out[w] = RecordsAlone(w)

\* C10: with two consumers interleaved on one Functest / FunctestClient, each
\* calling again at will, every walk sends the requests and yields the
\* records of a walk run alone: request k carries the walk's own from and to,
\* no `page` for k = 1 and page = k after; the records are the server's in
\* order; a new generator has sent and yielded nothing; and a step that
\* advances one walk leaves the other walk's state alone.
C10_NoSharedState ==
  /\ []C10_AloneState
  /\ [][\A w \in Walks : \A v \in Walks \ {w} :
          (pc'[w] # pc[w] \/ reqs'[w] # reqs[w] \/ out'[w] # out[w]) =>
            /\ pc'[v] = pc[v] /\ reqs'[v] = reqs[v] /\ out'[v] = out[v]
            /\ params'[FrameOf(v)] = params[FrameOf(v)]
            /\ response'[v] = response[v] /\ idx'[v] = idx[v]
            /\ ndata'[v] = ndata[v]]_vars

\* Both walks are under way with different windows, one on its third page
\* and the other on its first.
C10_Witness ==
  /\ pc[1] = "yielded" /\ pc[2] = "yielded"
  /\ api[1] = "fetch" /\ api[2] = "fetch"
  /\ args[1] # args[2]
  /\ Len(reqs[1]) = 3 /\ Len(reqs[2]) = 1
  /\ reqs[1][3][PFROM_DATE] # reqs[2][1][PFROM_DATE]

====
